---- MODULE Spec2Model ----
(***************************************************************************)
(* A model of PosterGen's Smart Pagination Engine (src/core/parser.py):     *)
(* SmartParser.parse = _tokenize, then _paginate; _create_block with its    *)
(* height heuristics; _get_image_height with its on-disk cache; and         *)
(* _try_split_list.                                                         *)
(*                                                                          *)
(* Strings are sequences of one-character strings, so startswith, strip,    *)
(* split and the regular expressions of the source are computed on the      *)
(* characters.  Heights are Python floats in the source; here a height h is *)
(* the integer h * Scale, with Scale the common denominator of the          *)
(* divisors 22, 18 and 20 of the heuristics, so every height of the model   *)
(* is the exact rational value of the source's expression (float rounding   *)
(* is not modelled).                                                        *)
(***************************************************************************)
EXTENDS Integers, Sequences, FiniteSets, TLC

(***************************************************************************)
(* Bounds of the model.                                                     *)
(***************************************************************************)
\* Most lines of an input document (parse).
MaxLines == 3
\* Most blocks of a block sequence handed to _paginate directly.
MaxBlocks == 3
\* Most items of a list handed to _try_split_list.
MaxItems == 3

(***************************************************************************)
(* Program constants.                                                       *)
(***************************************************************************)
\* self.MAX_HEIGHT = 420
MAX_HEIGHT == 420
\* return 300 # Fallback safe height
FALLBACK_HEIGHT == 300
\* render_width = 325
render_width == 325
\* final_height = min(calc_height, 520)
IMAGE_MAX_HEIGHT == 520
\* base_padding = 10 (of _try_split_list)
base_padding == 10
\* lcm of the divisors 22 (paragraph), 18 (blockquote), 20 (list, card):
\* the model's height unit is 1/Scale of a virtual unit.
Scale == 3 * 5 * 11

(***************************************************************************)
(* Strings.                                                                 *)
(***************************************************************************)
Max(a, b) == IF a >= b THEN a ELSE b
Min(a, b) == IF a <= b THEN a ELSE b

\* "c" * n
Rep(c, n) == [i \in 1..n |-> c]

\* Python's str.strip() whitespace, as far as the model's alphabet goes.
Whitespace == {" ", "\t", "\n"}
Digits == {"0", "1", "2", "3", "4", "5", "6", "7", "8", "9"}
\* \w of the regular expressions, as far as the model's alphabet goes.
WordChars == Digits \cup {"a", "b", "c", "d", "p", "r", "t", "x", "y", "T", "A", "B", "_"}

\* s[i:] with a 1-based i
From(s, i) == SubSeq(s, i, Len(s))

\* the number of leading characters of s that are in set cs
RECURSIVE LeadingRun(_, _)
LeadingRun(s, cs) ==
    IF s # << >> /\ Head(s) \in cs THEN 1 + LeadingRun(Tail(s), cs) ELSE 0

\* the number of trailing characters of s that are in set cs
RECURSIVE TrailingRun(_, _)
TrailingRun(s, cs) ==
    IF s # << >> /\ s[Len(s)] \in cs
    THEN 1 + TrailingRun(SubSeq(s, 1, Len(s) - 1), cs) ELSE 0

\* str.lstrip(), str.rstrip(), str.strip()
lstrip(s) == From(s, LeadingRun(s, Whitespace) + 1)
rstrip(s) == SubSeq(s, 1, Len(s) - TrailingRun(s, Whitespace))
strip(s) == rstrip(lstrip(s))

\* str.startswith(prefix)
startswith(s, prefix) ==
    Len(s) >= Len(prefix) /\ SubSeq(s, 1, Len(prefix)) = prefix

\* the least index i >= from with s[i] = c, or 0
RECURSIVE find(_, _, _)
find(s, c, from) ==
    IF from > Len(s) THEN 0
    ELSE IF s[from] = c THEN from ELSE find(s, c, from + 1)

\* the least index i >= from with s[i..] starting with pat, or 0
findsub(s, pat, from) ==
    LET hits == {i \in from..(Len(s) - Len(pat) + 1) : SubSeq(s, i, i + Len(pat) - 1) = pat}
    IN  IF hits = {} THEN 0 ELSE CHOOSE i \in hits : \A j \in hits : i <= j

\* str.split(sep) for a one-character sep: always at least one part
RECURSIVE split(_, _)
split(s, sep) ==
    LET i == find(s, sep, 1) IN
    IF i = 0 THEN << s >>
    ELSE << SubSeq(s, 1, i - 1) >> \o split(From(s, i + 1), sep)

\* sep.join(parts) for a one-character sep
RECURSIVE join(_, _)
join(parts, sep) ==
    IF parts = << >> THEN << >>
    ELSE IF Len(parts) = 1 THEN parts[1]
    ELSE parts[1] \o << sep >> \o join(Tail(parts), sep)

\* the sum of a sequence of integers
RECURSIVE Sum(_)
Sum(ns) == IF ns = << >> THEN 0 ELSE Head(ns) + Sum(Tail(ns))

(***************************************************************************)
(* The regular expressions of the source.                                   *)
(***************************************************************************)
\* The grave accent of a code fence is written "~" in this model: a string of
\* this module cannot hold a grave accent.
Backtick == "~"
\* the fence marker, three grave accents
Fence == << Backtick, Backtick, Backtick >>

\* re.sub of the marker pattern (leading whitespace, then a dash or a star, or
\* digits and a dot, then whitespace) by nothing: the item without its marker
clean_text(item) ==
    LET rest == lstrip(item)
        d == LeadingRun(rest, Digits)
    IN  IF rest # << >> /\ Head(rest) \in {"-", "*"} THEN lstrip(Tail(rest))
        ELSE IF d > 0 /\ Len(rest) > d /\ rest[d + 1] = "." THEN lstrip(From(rest, d + 2))
        ELSE item

\* stripped_line.startswith('- ') or stripped_line.startswith('* ')
\*   or re.match of digits and a dot at the start of stripped_line
is_list_item(stripped_line) ==
    LET d == LeadingRun(stripped_line, Digits) IN
    \/ startswith(stripped_line, << "-", " " >>)
    \/ startswith(stripped_line, << "*", " " >>)
    \/ d > 0 /\ Len(stripped_line) > d /\ stripped_line[d + 1] = "."

\* re.match of the image pattern, bang bracket alt bracket paren url paren:
\* where the bracket-paren pair and the closing paren after it are, or 0
image_mid(s) == IF startswith(s, << "!", "[" >>) THEN findsub(s, << "]", "(" >>, 3) ELSE 0
image_end(s) == IF image_mid(s) = 0 THEN 0 ELSE find(s, ")", image_mid(s) + 2)
is_image(s) == image_end(s) # 0
\* match.groups() of re.search of the image pattern in content
image_alt(s) == SubSeq(s, 3, image_mid(s) - 1)
image_url(s) == SubSeq(s, image_mid(s) + 2, image_end(s) - 1)

\* re.sub of the fence pattern by nothing, in MULTILINE mode, one line at a
\* time: a line that opens with a fence loses it and the word after it (and
\* its newline when nothing else is left of it); a fence ending a line goes.
strip_fence_end(l) ==
    IF Len(l) >= 3 /\ SubSeq(l, Len(l) - 2, Len(l)) = Fence
    THEN SubSeq(l, 1, Len(l) - 3) ELSE l
RECURSIVE clean_code_lines(_)
clean_code_lines(ls) ==
    IF ls = << >> THEN << >>
    ELSE LET l == Head(ls)
             rest == From(l, 4 + LeadingRun(From(l, 4), WordChars))
         IN  IF startswith(l, Fence)
             THEN IF rest = << >> /\ Len(ls) > 1 THEN clean_code_lines(Tail(ls))
                  ELSE << strip_fence_end(rest) >> \o clean_code_lines(Tail(ls))
             ELSE << strip_fence_end(l) >> \o clean_code_lines(Tail(ls))
clean_content(content) == strip(join(clean_code_lines(split(content, "\n")), "\n"))

(***************************************************************************)
(* _create_block: the markup and the height of a block.  The markup         *)
(* renderer (markdown.markdown) is an external library: its result is the   *)
(* record of what it was given.                                             *)
(***************************************************************************)
BlockTypes == {"h1", "h2", "h3", "p", "list", "code", "image", "blockquote"}

markdown(text) == [tag |-> "markdown", text |-> text]
\* process_inline strips the wrapping <p> of a one-paragraph fragment
process_inline(text) == [tag |-> "inline", text |-> text]

block_html(type, content) ==
    IF type = "h2" THEN [tag |-> "h2", text |-> process_inline(content).text]
    ELSE IF type = "h3" THEN [tag |-> "h3", text |-> process_inline(content).text]
    ELSE IF type = "list" THEN markdown(content)
    ELSE IF type = "code" THEN [tag |-> "code-block", text |-> clean_content(content)]
    ELSE IF type = "image"
         THEN IF is_image(content)
              THEN [tag |-> "image-wrapper", text |-> image_url(content) \o << "|" >> \o image_alt(content)]
              ELSE [tag |-> "", text |-> << >>]
    ELSE markdown(content)

\* item_lines = max(1, len(clean_text) / 20), times 20
item_lines20(item) == Max(20, Len(clean_text(item)))

\* height = total_visual_lines * 24 + len(items) * 8 + 10
list_height(content) ==
    LET items == split(content, "\n")
        total_visual_lines20 == Sum([i \in 1..Len(items) |-> item_lines20(items[i])])
    IN  (total_visual_lines20 * 24 * Scale) \div 20 + Len(items) * 8 * Scale + 10 * Scale

\* 'card' in html
has_card(content) == findsub(content, << "c", "a", "r", "d" >>, 1) # 0

\* The height chain of _create_block; image_height is what _get_image_height
\* returned for the block's URL (read for an image block only).
block_height(type, content, image_height) ==
    IF type = "h2" THEN 60 * Scale
    ELSE IF type = "h3" THEN 50 * Scale
    ELSE IF type = "list" THEN list_height(content)
    ELSE IF type = "code" THEN (Len(split(content, "\n")) * 30 + 30) * Scale
    ELSE IF type = "image"
         THEN IF is_image(content) THEN image_height ELSE FALLBACK_HEIGHT * Scale
    ELSE IF has_card(content) THEN (Len(content) * 24 * Scale) \div 20 + 80 * Scale
    ELSE (Len(content) * 24 * Scale) \div 22 + 20 * Scale

create_block(type, content, image_height) ==
    IF type \notin {"h2", "h3", "list", "code", "image"} /\ startswith(content, << ">" >>)
    THEN [type |-> "blockquote", content |-> content, html |-> markdown(content),
          height |-> (Len(content) * 24 * Scale) \div 18 + 50 * Scale]
    ELSE [type |-> type, content |-> content, html |-> block_html(type, content),
          height |-> block_height(type, content, image_height)]

(***************************************************************************)
(* _get_image_height: the Image Metadata Service.  The network and the      *)
(* image decoder are the environment: a reply is a download error or the    *)
(* bytes of a file, and a file is an image of some pixel size or bytes      *)
(* that do not decode.                                                      *)
(***************************************************************************)
\* pixel sizes (width, height) of the images the network may serve
ImageSizes == { << 650, 400 >>, << 325, 600 >>, << 100, 0 >>, << 0, 100 >> }
\* a file: an image of a pixel size, or bytes that do not decode
Files ==
    {[kind |-> "image", width |-> wh[1], height |-> wh[2]] : wh \in ImageSizes}
        \cup {[kind |-> "garbage", width |-> 0, height |-> 0]}
\* what requests.get and raise_for_status answer: an error, or a file's bytes
NetReplies == {[kind |-> "error", width |-> 0, height |-> 0]} \cup Files

\* the greatest index i with s[i] = c, or 0
RECURSIVE rfind(_, _)
rfind(s, c) ==
    IF s = << >> THEN 0
    ELSE IF s[Len(s)] = c THEN Len(s) ELSE rfind(SubSeq(s, 1, Len(s) - 1), c)

\* os.path.splitext(url)[1]: from the last dot of the last path component,
\* unless that component is dots up to it
splitext(url) ==
    LET sepIndex == rfind(url, "/")
        dotIndex == rfind(url, ".")
    IN  IF dotIndex > sepIndex
           /\ \E i \in (sepIndex + 1)..(dotIndex - 1) : url[i] # "."
        THEN From(url, dotIndex) ELSE << >>

\* hashlib.md5(url.encode()).hexdigest(): a digest, taken to be free of collisions
url_hash(url) == << "md5" >> \o url

\* cache_path, within self.cache_dir
cache_path(url) ==
    url_hash(url) \o (IF splitext(url) # << >> THEN splitext(url) ELSE << ".", "p", "n", "g" >>)

\* requests.get raises MissingSchema or InvalidSchema for a URL without http(s)://
well_formed(url) ==
    \/ startswith(url, << "h", "t", "t", "p", ":", "/", "/" >>)
    \/ startswith(url, << "h", "t", "t", "p", "s", ":", "/", "/" >>)

\* except Exception as e: the handler catches every exception of the try block
except_catches_Mut(exc) == exc \notin {"ZeroDivisionError"}
except_catches(exc) == TRUE

\* The try block past the download: Image.open(cache_path) and the arithmetic.
\* The exception raised, or "" for none.
decode_exception(file) ==
    IF file.kind = "garbage" THEN "UnidentifiedImageError"
    ELSE IF file.height = 0 THEN "ZeroDivisionError"   \* aspect_ratio = width / height
    ELSE IF file.width = 0 THEN "ZeroDivisionError"    \* render_width / aspect_ratio
    ELSE ""

\* calc_height = render_width / (width / height); final_height = min(calc_height, 520)
final_height(file) ==
    Min((render_width * file.height * Scale) \div file.width, IMAGE_MAX_HEIGHT * Scale)

\* os.path.exists(cache_path), and the file there; the cache directory is a
\* set of (path, file) entries, one for a path
exists(dir, path) == \E e \in dir : e.path = path
file_at(dir, path) == (CHOOSE e \in dir : e.path = path).file

\* One call: cache is the cache directory before it, reply what requests.get
\* would answer (asked only when the file is not cached).  The result holds
\* the height returned, the directory after the call, whether the network
\* was asked, the exception of the try block ("" for none) and whether that
\* exception left the function.
get_image_height(url, cache, reply) ==
    LET path == cache_path(url)
        cached == exists(cache, path)
        download_exc == IF cached THEN ""
                        ELSE IF ~well_formed(url) THEN "MissingSchema"
                        ELSE IF reply.kind = "error" THEN "RequestException"
                        ELSE ""
        cache_after == IF cached \/ download_exc # "" THEN cache
                       ELSE cache \cup {[path |-> path, file |-> reply]}
        exc == IF download_exc # "" THEN download_exc
               ELSE decode_exception(file_at(cache_after, path))
    IN  [height |-> IF exc # "" THEN FALLBACK_HEIGHT * Scale
                    ELSE final_height(file_at(cache_after, path)),
         cache |-> cache_after,
         fetched |-> ~cached /\ well_formed(url),
         exc |-> exc,
         raised |-> exc # "" /\ ~except_catches(exc),
         url |-> url]

(***************************************************************************)
(* The inputs of the model.                                                 *)
(***************************************************************************)
\* the lines an input document is made of
SampleLines ==
    { << "#", " ", "T" >>,                       \* a top-level heading
      << "#", "T" >>,                            \* one without the space
      << "#" >>,                                 \* a heading marker with no text
      << "#", "#", " ", "A" >>,                  \* a second-level heading
      << "-", " ", "a" >>,                       \* a list item
      << " ", " ", "-", " ", "b" >>,             \* a nested list item
      << "!", "[", "i", "]", "(", "h", "t", "t", "p", ":", "/", "/", "u", ")" >>,
      << "!", "[", "i", "]", "(", "u", ")" >>,   \* an image with a malformed URL
      Fence,                                     \* a code fence
      << >>,                                     \* a blank line
      << "p" >> }                                \* text

\* all sequences over S of length lo..hi
SeqsOf(S, lo, hi) == UNION {[1..n -> S] : n \in lo..hi}

\* the documents handed to parse
Texts == {join(d, "\n") : d \in SeqsOf(SampleLines, 1, MaxLines)}

(***************************************************************************)
(* State.                                                                   *)
(***************************************************************************)
VARIABLES
    pc,                     \* where the program is
    entry,                  \* the function that was called: parse, _paginate, _try_split_list
    text,                   \* parse's markdown_text
    lines,                  \* _tokenize: text.strip().split(newline)
    pos,                    \* _tokenize: the index in lines of the line of the next iteration
    blocks,                 \* _tokenize's blocks, then _paginate's blocks
    current_block,          \* _tokenize: the lines accumulated
    current_type,           \* _tokenize: the type being accumulated
    cache,                  \* the files of self.cache_dir: (path, file) entries
    lookups,                \* history: the results of the _get_image_height calls, in order
    cover_block,            \* _paginate: the first h1 block, or None
    block_queue,            \* _paginate
    slides,                 \* _paginate
    current_slide_content,  \* _paginate: the markup fragments of the open slide
    current_height,         \* _paginate
    slide_index,            \* _paginate
    slide_blocks,           \* history: for each slide of slides, the blocks laid on it
    current_blocks,         \* history: the blocks laid on the open slide
    sweep_log,              \* history: one entry for each iteration of the sweep
    given_blocks,           \* history: the blocks argument _paginate was called with
    split_block,            \* _try_split_list's block
    available_height,       \* _try_split_list's available_height
    split_result            \* what _try_split_list returned

tokvars == << text, lines, pos, current_block, current_type >>
imgvars == << cache, lookups >>
pagvars == << cover_block, block_queue, slides, current_slide_content, current_height,
              slide_index, slide_blocks, current_blocks, sweep_log, given_blocks >>
splitvars == << split_block, available_height, split_result >>
vars == << pc, entry, blocks, tokvars, imgvars, pagvars, splitvars >>

\* Python's None
None == [type |-> "None"]

\* after SmartParser(config): nothing called yet, the cache directory made
Init ==
    /\ pc = "idle"
    /\ entry = "none"
    /\ text = << >>
    /\ lines = << >>
    /\ pos = 0
    /\ blocks = << >>
    /\ current_block = << >>
    /\ current_type = "p"
    /\ cache = {}
    /\ lookups = << >>
    /\ cover_block = None
    /\ block_queue = << >>
    /\ slides = << >>
    /\ current_slide_content = << >>
    /\ current_height = 0
    /\ slide_index = 0
    /\ slide_blocks = << >>
    /\ current_blocks = << >>
    /\ sweep_log = << >>
    /\ given_blocks = << >>
    /\ split_block = None
    /\ available_height = 0
    /\ split_result = << >>

(***************************************************************************)
(* parse and _tokenize.                                                     *)
(***************************************************************************)
\* flush_block: the blocks after it (current_block is empty after it in
\* every case); image_height is read for an image block only
flush_block_Mut(blks, cur_block, cur_type, image_height) ==
    IF cur_block # << >>
    THEN Append(blks, create_block(cur_type, strip(join(cur_block, "\n")), image_height))
    ELSE blks
flush_block(blks, cur_block, cur_type, image_height) ==
    IF cur_block # << >> /\ strip(join(cur_block, "\n")) # << >>
    THEN Append(blks, create_block(cur_type, strip(join(cur_block, "\n")), image_height))
    ELSE blks

\* line = line.rstrip(); stripped_line = line.strip(), of the line at pos
line_at(p) == rstrip(lines[p])
stripped_line_at(p) == strip(line_at(p))

\* level = len(line.split(' ')[0]), then the if chain on level
header_type(line) ==
    LET level == Len(split(line, " ")[1]) IN
    IF level = 1 THEN "h1" ELSE IF level = 2 THEN "h2" ELSE "h3"

\* parse(markdown_text) is called; _tokenize sets up its loop
Parse ==
    /\ pc = "idle"
    /\ \E t \in Texts :
        /\ text' = t
        /\ lines' = split(strip(t), "\n")
    /\ entry' = "parse"
    /\ pc' = "tokenize"
    /\ pos' = 1
    /\ blocks' = << >>
    /\ current_block' = << >>
    /\ current_type' = "p"
    /\ UNCHANGED << imgvars, pagvars, splitvars >>

InLoop == pc = "tokenize" /\ pos <= Len(lines)

\* 1. a fence line: closes the code block, or flushes and opens one
TokFence ==
    /\ InLoop
    /\ startswith(stripped_line_at(pos), Fence)
    /\ IF current_type = "code"
       THEN /\ blocks' = flush_block(blocks, Append(current_block, line_at(pos)), "code", 0)
            /\ current_block' = << >>
            /\ current_type' = "p"
       ELSE /\ blocks' = flush_block(blocks, current_block, current_type, 0)
            /\ current_type' = "code"
            /\ current_block' = << line_at(pos) >>
    /\ pos' = pos + 1
    /\ UNCHANGED << pc, entry, text, lines, imgvars, pagvars, splitvars >>

\* inside a code block every line is captured
TokCode_Mut ==
    /\ InLoop
    /\ ~startswith(stripped_line_at(pos), Fence)
    /\ current_type = "code"
    /\ IF stripped_line_at(pos) = << >>
       THEN /\ blocks' = flush_block(blocks, current_block, current_type, 0)
            /\ current_block' = << >>
            /\ current_type' = "p"
       ELSE /\ blocks' = blocks
            /\ current_block' = Append(current_block, line_at(pos))
            /\ current_type' = current_type
    /\ pos' = pos + 1
    /\ UNCHANGED << pc, entry, text, lines, imgvars, pagvars, splitvars >>
TokCode ==
    /\ InLoop
    /\ ~startswith(stripped_line_at(pos), Fence)
    /\ current_type = "code"
    /\ current_block' = Append(current_block, line_at(pos))
    /\ pos' = pos + 1
    /\ UNCHANGED << pc, entry, text, lines, blocks, current_type, imgvars, pagvars, splitvars >>

\* the guard of the branches below: not a fence line, not in a code block
Plain == InLoop /\ ~startswith(stripped_line_at(pos), Fence) /\ current_type # "code"

\* 2. a header line
TokHeader ==
    /\ Plain
    /\ startswith(line_at(pos), << "#" >>)
    /\ LET line == line_at(pos)
           flushed == flush_block(blocks, current_block, current_type, 0)
           title == strip(From(line, LeadingRun(line, {"#"}) + 1))
       IN  blocks' = flush_block(flushed, << title >>, header_type(line), 0)
    /\ current_block' = << >>
    /\ current_type' = "p"
    /\ pos' = pos + 1
    /\ UNCHANGED << pc, entry, text, lines, imgvars, pagvars, splitvars >>

\* 3. a list item
TokList ==
    /\ Plain
    /\ ~startswith(line_at(pos), << "#" >>)
    /\ is_list_item(stripped_line_at(pos))
    /\ IF current_type # "list"
       THEN /\ blocks' = flush_block(blocks, current_block, current_type, 0)
            /\ current_block' = << line_at(pos) >>
       ELSE /\ blocks' = blocks
            /\ current_block' = Append(current_block, line_at(pos))
    /\ current_type' = "list"
    /\ pos' = pos + 1
    /\ UNCHANGED << pc, entry, text, lines, imgvars, pagvars, splitvars >>

\* 4. an image line: a block of its own, whose height _get_image_height gives.
\* An exception leaving _get_image_height would leave parse.
TokImage_Mut ==
    /\ InLoop /\ ~startswith(stripped_line_at(pos), Fence) /\ current_type # "code"
    /\ ~startswith(line_at(pos), << "#" >>)
    /\ ~is_list_item(stripped_line_at(pos))
    /\ is_image(stripped_line_at(pos))
    /\ \E reply \in NetReplies :
        LET got == get_image_height(image_url(stripped_line_at(pos)), cache, reply)
        IN  /\ cache' = got.cache
            /\ lookups' = Append(lookups, [url |-> got.url, fetched |-> got.fetched,
                                          exc |-> got.exc, height |-> got.height])
            /\ pc' = pc
            /\ blocks' = IF current_block # << >>
                         THEN flush_block(blocks, Append(current_block, stripped_line_at(pos)),
                                          current_type, 0)
                         ELSE flush_block(blocks, << stripped_line_at(pos) >>, "image", got.height)
    /\ current_block' = << >>
    /\ current_type' = "p"
    /\ pos' = pos + 1
    /\ UNCHANGED << entry, text, lines, pagvars, splitvars >>
TokImage ==
    /\ Plain
    /\ ~startswith(line_at(pos), << "#" >>)
    /\ ~is_list_item(stripped_line_at(pos))
    /\ is_image(stripped_line_at(pos))
    /\ \E reply \in NetReplies :
        LET flushed == flush_block(blocks, current_block, current_type, 0)
            got == get_image_height(image_url(stripped_line_at(pos)), cache, reply)
        IN  /\ cache' = got.cache
            /\ lookups' = Append(lookups, [url |-> got.url, fetched |-> got.fetched,
                                          exc |-> got.exc, height |-> got.height])
            /\ IF got.raised
               THEN pc' = "raised" /\ blocks' = flushed
               ELSE /\ pc' = pc
                    /\ blocks' = flush_block(flushed, << stripped_line_at(pos) >>, "image", got.height)
    /\ current_block' = << >>
    /\ current_type' = "p"
    /\ pos' = pos + 1
    /\ UNCHANGED << entry, text, lines, pagvars, splitvars >>

\* the guard of the last two branches
Other ==
    /\ Plain
    /\ ~startswith(line_at(pos), << "#" >>)
    /\ ~is_list_item(stripped_line_at(pos))
    /\ ~is_image(stripped_line_at(pos))

\* 5. an empty line
TokEmpty ==
    /\ Other
    /\ stripped_line_at(pos) = << >>
    /\ blocks' = flush_block(blocks, current_block, current_type, 0)
    /\ current_block' = << >>
    /\ current_type' = "p"
    /\ pos' = pos + 1
    /\ UNCHANGED << pc, entry, text, lines, imgvars, pagvars, splitvars >>

\* 5. normal text
TokText ==
    /\ Other
    /\ stripped_line_at(pos) # << >>
    /\ current_block' = Append(current_block, line_at(pos))
    /\ pos' = pos + 1
    /\ UNCHANGED << pc, entry, text, lines, blocks, current_type, imgvars, pagvars, splitvars >>

\* after the loop: the last flush, and parse hands the blocks to _paginate
TokEnd ==
    /\ pc = "tokenize"
    /\ pos > Len(lines)
    /\ blocks' = flush_block(blocks, current_block, current_type, 0)
    /\ current_block' = << >>
    /\ pc' = "paginate"
    /\ UNCHANGED << entry, text, lines, pos, current_type, imgvars, pagvars, splitvars >>

(***************************************************************************)
(* _paginate and _finalize_slide.                                           *)
(***************************************************************************)
DigitChars == << "0", "1", "2", "3", "4", "5", "6", "7", "8", "9" >>

\* str(n) for n >= 0
RECURSIVE decimal(_)
decimal(n) == IF n < 10 THEN << DigitChars[n + 1] >>
              ELSE decimal(n \div 10) \o << DigitChars[(n % 10) + 1] >>

\* the format spec 02d: at least two digits, zero-padded
fmt02d(n) == IF n < 10 THEN << "0" >> \o decimal(n) ELSE decimal(n)

SLIDE == << "S", "L", "I", "D", "E", " " >>

\* f"SLIDE {index:02d}", the footer a slide gets when it is closed
provisional_footer(index) == SLIDE \o fmt02d(index)

\* f"SLIDE {i+1:02d}/{total_slides:02d}" with position = i + 1
final_footer_Mut(position, total_slides) == SLIDE \o fmt02d(position) \o << "/" >> \o fmt02d(total_slides - 1)
final_footer(position, total_slides) == SLIDE \o fmt02d(position) \o << "/" >> \o fmt02d(total_slides)

finalize_slide_Mut(content_list, index) ==
    [is_cover |-> FALSE,
     header_left |-> "PARENT PROCESS",
     header_right |-> "CONTENT",
     footer_left |-> "POSTER GEN",
     footer_right |-> provisional_footer(index),
     content |-> [k \in 1..Len(content_list) |-> content_list[Len(content_list) + 1 - k]]]
finalize_slide(content_list, index) ==
    [is_cover |-> FALSE,
     header_left |-> "PARENT PROCESS",
     header_right |-> "CONTENT",
     footer_left |-> "POSTER GEN",
     footer_right |-> provisional_footer(index),
     content |-> content_list]

cover_slide(cover) ==
    [is_cover |-> TRUE,
     cover_title |-> cover.content,
     cover_subtitle |-> "Generated by PosterGen",
     tagline |-> "PARENT PROCESS",
     header_left |-> "PARENT PROCESS",
     header_right |-> "COVER",
     footer_left |-> "AUTHOR",
     footer_right |-> << "S", "L", "I", "D", "E", " ", "0", "1" >>]

\* next((b for b in blocks if b['type'] == 'h1'), None)
first_h1_Mut(blks) ==
    IF \E i \in 1..Len(blks) : blks[i].type = "h1"
    THEN blks[CHOOSE i \in 1..Len(blks) :
                /\ blks[i].type = "h1"
                /\ \A j \in (i + 1)..Len(blks) : blks[j].type # "h1"]
    ELSE None
first_h1(blks) ==
    IF \E i \in 1..Len(blks) : blks[i].type = "h1"
    THEN blks[CHOOSE i \in 1..Len(blks) :
                /\ blks[i].type = "h1"
                /\ \A j \in 1..(i - 1) : blks[j].type # "h1"]
    ELSE None

IsFlow(b) == b.type # "h1"

\* the blocks _paginate may be handed directly
SampleBlocks ==
    { create_block("h1", << "T" >>, 0),
      create_block("h1", << "U" >>, 0),
      create_block("h2", << "A" >>, 0),
      create_block("h3", << "B" >>, 0),
      create_block("p", << "p" >>, 0),
      create_block("p", Rep("x", 77), 0),
      create_block("p", Rep("x", 374), 0),
      create_block("list", << "-", " ", "a", "\n", "-", " ", "a" >>, 0),
      create_block("list", join(Rep(<< "-", " ", "a" >>, 13), "\n"), 0),
      create_block("code", join(<< Fence, << "x" >>, Fence >>, "\n"), 0),
      create_block("image", << "!", "[", "i", "]", "(", "u", ")" >>, FALLBACK_HEIGHT * Scale),
      create_block("image", << "!", "[", "i", "]", "(", "h", "t", "t", "p", ":", "/", "/", "u", ")" >>,
                   final_height([kind |-> "image", width |-> 325, height |-> 600])) }

\* _paginate(blocks) is called on its own
Paginate ==
    /\ pc = "idle"
    /\ \E bs \in SeqsOf(SampleBlocks, 0, MaxBlocks) : blocks' = bs
    /\ entry' = "paginate"
    /\ pc' = "paginate"
    /\ UNCHANGED << tokvars, imgvars, pagvars, splitvars >>

\* the cover extraction and the set-up of the sweep
PagStart ==
    /\ pc = "paginate"
    /\ cover_block' = first_h1(blocks)
    /\ blocks' = SelectSeq(blocks, IsFlow)
    /\ slides' = IF first_h1(blocks) # None THEN << cover_slide(first_h1(blocks)) >> ELSE << >>
    /\ slide_blocks' = IF first_h1(blocks) # None THEN << << >> >> ELSE << >>
    /\ slide_index' = IF first_h1(blocks) # None THEN 2 ELSE 1
    /\ block_queue' = SelectSeq(blocks, IsFlow)
    /\ current_slide_content' = << >>
    /\ current_blocks' = << >>
    /\ sweep_log' = << >>
    /\ given_blocks' = blocks
    /\ current_height' = 0
    /\ pc' = "sweep"
    /\ UNCHANGED << entry, tokvars, imgvars, splitvars >>

\* Orphan Header Protection: the condition under which the open slide is
\* closed before a header; rest is the queue after the pop
orphan_protection_Mut(block, rest, cur_height, content) ==
    /\ block.type \in {"h2", "h3"}
    /\ rest # << >>
    /\ cur_height + block.height > MAX_HEIGHT * Scale
    /\ content # << >>
orphan_protection(block, rest, cur_height, content) ==
    /\ block.type \in {"h2", "h3"}
    /\ rest # << >>
    /\ cur_height + block.height + rest[1].height > MAX_HEIGHT * Scale
    /\ content # << >>

\* the overflow condition under which the open slide is closed before a block
overflows_Mut(block, cur_height, content) ==
    /\ cur_height > MAX_HEIGHT * Scale
    /\ content # << >>
overflows_Early_Mut(block, cur_height, content) ==
    /\ cur_height + block.height > (MAX_HEIGHT - 100) * Scale
    /\ content # << >>
overflows(block, cur_height, content) ==
    /\ cur_height + block.height > MAX_HEIGHT * Scale
    /\ content # << >>

\* One iteration of the while loop: the block is popped; protect and overflow
\* say which of the two closings happens before the block is laid.
Iteration_Mut(protect, overflow) ==
    LET block == Head(block_queue)
        items == split(block.content, "\n")
        splits == overflow /\ block.type = "list" /\ Len(items) > 1
        part1 == create_block("list", items[1], 0)
        part2 == create_block("list", join(Tail(items), "\n"), 0)
        laid == IF splits THEN part1 ELSE block
        closes == (protect \/ overflow) /\ ~splits
    IN  /\ block_queue' = IF splits THEN << part2 >> \o Tail(block_queue) ELSE Tail(block_queue)
        /\ slides' = IF closes THEN Append(slides, finalize_slide(current_slide_content, slide_index))
                     ELSE slides
        /\ slide_blocks' = IF closes THEN Append(slide_blocks, current_blocks) ELSE slide_blocks
        /\ slide_index' = IF closes THEN slide_index + 1 ELSE slide_index
        /\ current_slide_content' = IF closes THEN << laid.html >>
                                    ELSE Append(current_slide_content, laid.html)
        /\ current_blocks' = IF closes THEN << laid >> ELSE Append(current_blocks, laid)
        /\ current_height' = IF closes THEN laid.height ELSE current_height + laid.height
        /\ sweep_log' = Append(sweep_log,
                [block |-> block,
                 height_before |-> current_height,
                 had_content |-> current_slide_content # << >>,
                 queue_after |-> Len(block_queue) - 1,
                 closed |-> IF protect THEN "protection" ELSE IF overflow THEN "overflow" ELSE "none"])
        /\ UNCHANGED << pc, entry, blocks, cover_block, given_blocks, tokvars, imgvars, splitvars >>
Iteration(protect, overflow) ==
    LET block == Head(block_queue)
        closes == protect \/ overflow
    IN  /\ block_queue' = Tail(block_queue)
        /\ slides' = IF closes THEN Append(slides, finalize_slide(current_slide_content, slide_index))
                     ELSE slides
        /\ slide_blocks' = IF closes THEN Append(slide_blocks, current_blocks) ELSE slide_blocks
        /\ slide_index' = IF closes THEN slide_index + 1 ELSE slide_index
        /\ current_slide_content' = IF closes THEN << block.html >>
                                    ELSE Append(current_slide_content, block.html)
        /\ current_blocks' = IF closes THEN << block >> ELSE Append(current_blocks, block)
        /\ current_height' = IF closes THEN block.height ELSE current_height + block.height
        /\ sweep_log' = Append(sweep_log,
                [block |-> block,
                 height_before |-> current_height,
                 had_content |-> current_slide_content # << >>,
                 queue_after |-> Len(block_queue) - 1,
                 closed |-> IF protect THEN "protection" ELSE IF overflow THEN "overflow" ELSE "none"])
        /\ UNCHANGED << pc, entry, blocks, cover_block, given_blocks, tokvars, imgvars, splitvars >>

InSweep == pc = "sweep" /\ block_queue # << >>

\* an iteration in which the orphan protection closes the slide; the slide is
\* empty afterwards, so the overflow check that follows closes nothing
SweepProtect ==
    /\ InSweep
    /\ orphan_protection(Head(block_queue), Tail(block_queue), current_height, current_slide_content)
    /\ ~overflows(Head(block_queue), 0, << >>)
    /\ Iteration(TRUE, FALSE)

\* an iteration in which the overflow check closes the slide
SweepOverflow ==
    /\ InSweep
    /\ ~orphan_protection(Head(block_queue), Tail(block_queue), current_height, current_slide_content)
    /\ overflows(Head(block_queue), current_height, current_slide_content)
    /\ Iteration(FALSE, TRUE)

\* an iteration that lays the block on the open slide
SweepPlace ==
    /\ InSweep
    /\ ~orphan_protection(Head(block_queue), Tail(block_queue), current_height, current_slide_content)
    /\ ~overflows(Head(block_queue), current_height, current_slide_content)
    /\ Iteration(FALSE, FALSE)

\* Flush last slide
FlushLast_Mut ==
    /\ pc = "sweep"
    /\ block_queue = << >>
    /\ current_slide_content = << >>
    /\ pc' = "renumber"
    /\ UNCHANGED << entry, blocks, cover_block, block_queue, slides, slide_blocks,
                    current_slide_content, current_height, slide_index, current_blocks,
                    sweep_log, given_blocks, tokvars, imgvars, splitvars >>
FlushLast ==
    /\ pc = "sweep"
    /\ block_queue = << >>
    /\ slides' = IF current_slide_content # << >>
                 THEN Append(slides, finalize_slide(current_slide_content, slide_index))
                 ELSE slides
    /\ slide_blocks' = IF current_slide_content # << >>
                       THEN Append(slide_blocks, current_blocks) ELSE slide_blocks
    /\ pc' = "renumber"
    /\ UNCHANGED << entry, blocks, cover_block, block_queue, current_slide_content, current_height,
                    slide_index, current_blocks, sweep_log, given_blocks, tokvars, imgvars,
                    splitvars >>

\* Update total count, and return slides
Renumber_Mut ==
    /\ pc = "renumber"
    /\ slides' = [i \in 1..Len(slides) |->
                    [slides[i] EXCEPT !.footer_right = final_footer(i, Len(slides)),
                                      !.footer_left = "AUTHOR"]]
    /\ pc' = "done"
    /\ UNCHANGED << entry, blocks, cover_block, block_queue, current_slide_content, current_height,
                    slide_index, slide_blocks, current_blocks, sweep_log, given_blocks, tokvars,
                    imgvars, splitvars >>
Renumber ==
    /\ pc = "renumber"
    /\ slides' = [i \in 1..Len(slides) |->
                    [slides[i] EXCEPT !.footer_right = final_footer(i, Len(slides))]]
    /\ pc' = "done"
    /\ UNCHANGED << entry, blocks, cover_block, block_queue, current_slide_content, current_height,
                    slide_index, slide_blocks, current_blocks, sweep_log, given_blocks, tokvars, imgvars,
                    splitvars >>

(***************************************************************************)
(* _try_split_list.                                                         *)
(***************************************************************************)
\* len(item) - len(item.lstrip())
indent_of(item) == Len(item) - Len(lstrip(item))

\* h = item_lines * 24 + 8
item_height(item) == (item_lines20(item) * 24 * Scale) \div 20 + 8 * Scale

\* the condition of the break of the fitting loop
no_room_Mut(current_h, h, available) == current_h > available
no_room(current_h, h, available) == current_h + h > available

\* the for loop over item_heights from item i (0-based) on, with current_h
\* and split_index as they stand: the split_index after the loop
RECURSIVE fit_loop(_, _, _, _, _)
fit_loop(items, available, i, current_h, split_index) ==
    IF i >= Len(items) THEN split_index
    ELSE IF no_room(current_h, item_height(items[i + 1]), available) THEN split_index
    ELSE fit_loop(items, available, i + 1, current_h + item_height(items[i + 1]), i)

\* the while loop of the Sticky Parent logic from temp_index down: the
\* split_index after it
RECURSIVE backtrack(_, _, _, _)
backtrack(items, curr_indent, temp_index, split_index) ==
    IF temp_index < 0 THEN split_index
    ELSE IF indent_of(items[temp_index + 1]) < curr_indent
         THEN IF temp_index > 0 THEN temp_index - 1 ELSE split_index
    ELSE backtrack(items, curr_indent, temp_index - 1, split_index)

\* split_index (0-based, -1 for none) after the fitting loop
fitted_index(items, available) == fit_loop(items, available, 0, base_padding * Scale, -1)

\* split_index after the Sticky Parent logic
sticky_index(items, split_index) ==
    IF split_index > 0
    THEN backtrack(items, indent_of(items[split_index + 1]), split_index, split_index)
    ELSE split_index

\* the longest common prefix of two strings
RECURSIVE common_prefix(_, _)
common_prefix(a, b) ==
    IF a # << >> /\ b # << >> /\ Head(a) = Head(b)
    THEN << Head(a) >> \o common_prefix(Tail(a), Tail(b)) ELSE << >>

\* the longest common prefix of a non-empty sequence of strings
RECURSIVE common_prefix_all(_)
common_prefix_all(ss) ==
    IF Len(ss) = 1 THEN ss[1] ELSE common_prefix(ss[1], common_prefix_all(Tail(ss)))

\* textwrap.dedent on the lines of a text: lines of blanks and tabs only are
\* emptied, and the leading blanks and tabs common to the other lines go
dedent_lines_Mut(ls) == [i \in 1..Len(ls) |-> lstrip(ls[i])]
dedent_lines(ls) ==
    LET ws(l) == SubSeq(l, 1, LeadingRun(l, {" ", "\t"}))
        blank(l) == LeadingRun(l, {" ", "\t"}) = Len(l)
        indents == SelectSeq([i \in 1..Len(ls) |-> IF blank(ls[i]) THEN << "\n" >> ELSE ws(ls[i])],
                             LAMBDA x : x # << "\n" >>)
        margin == IF indents = << >> THEN << >> ELSE common_prefix_all(indents)
    IN  [i \in 1..Len(ls) |-> IF blank(ls[i]) THEN << >> ELSE From(ls[i], Len(margin) + 1)]

\* _try_split_list(block, available_height): the pair returned
try_split_list(block, available) ==
    LET items == split(block.content, "\n")
        split_index == sticky_index(items, fitted_index(items, available))
        part1_items == SubSeq(items, 1, split_index + 1)
        part2_items == SubSeq(items, split_index + 2, Len(items))
    IN  IF split_index < 0 THEN << None, None >>
        ELSE IF part1_items = << >> \/ part2_items = << >> THEN << None, None >>
        ELSE << create_block("list", join(part1_items, "\n"), 0),
                create_block("list", join(dedent_lines(part2_items), "\n"), 0) >>

\* the list lines a list block is made of
SampleItems ==
    { << "-", " ", "a" >>,
      << " ", " ", "-", " ", "b" >>,
      << " ", " ", " ", " ", "*", " ", "c" >>,
      << "1", ".", " " >> \o Rep("x", 25) }

\* the List blocks the Tokenizer makes of such lines: the lines joined, the
\* whole stripped
SampleLists ==
    {create_block("list", strip(join(its, "\n")), 0) : its \in SeqsOf(SampleItems, 1, MaxItems)}

\* most whole units of an available_height
MaxAvailable == 130
AvailableHeights == {h * Scale : h \in 0..MaxAvailable}

\* _try_split_list(block, available_height) is called
TrySplitList ==
    /\ pc = "idle"
    /\ \E b \in SampleLists : split_block' = b
    /\ \E h \in AvailableHeights : available_height' = h
    /\ entry' = "try_split_list"
    /\ pc' = "split"
    /\ UNCHANGED << blocks, split_result, tokvars, imgvars, pagvars >>

\* it returns (None, None)
SplitNone ==
    /\ pc = "split"
    /\ try_split_list(split_block, available_height) = << None, None >>
    /\ split_result' = << None, None >>
    /\ pc' = "returned"
    /\ UNCHANGED << entry, blocks, split_block, available_height, tokvars, imgvars, pagvars >>

\* it returns two blocks
SplitPair ==
    /\ pc = "split"
    /\ try_split_list(split_block, available_height) # << None, None >>
    /\ split_result' = try_split_list(split_block, available_height)
    /\ pc' = "returned"
    /\ UNCHANGED << entry, blocks, split_block, available_height, tokvars, imgvars, pagvars >>

NextSplit == TrySplitList \/ SplitNone \/ SplitPair

\* _try_split_list(block, available_height) on its own
SpecSplit == Init /\ [][NextSplit]_vars

NextParse ==
    \/ Parse \/ TokFence \/ TokCode \/ TokHeader \/ TokList \/ TokImage \/ TokEmpty
    \/ TokText \/ TokEnd
    \/ PagStart \/ SweepProtect \/ SweepOverflow \/ SweepPlace \/ FlushLast \/ Renumber

NextPaginate ==
    \/ Paginate
    \/ PagStart \/ SweepProtect \/ SweepOverflow \/ SweepPlace \/ FlushLast \/ Renumber

\* the program: parse(markdown_text)
Spec == Init /\ [][NextParse]_vars

\* _paginate(blocks) on its own
SpecPaginate == Init /\ [][NextPaginate]_vars

\* a step of a call of _paginate
PaginateStep ==
    PagStart \/ SweepProtect \/ SweepOverflow \/ SweepPlace \/ FlushLast \/ Renumber

\* the same, where a call of _paginate that can take a step takes one: the
\* function is sequential code that runs until it returns (whether it is
\* called at all is left open)
SpecPaginateLive == SpecPaginate /\ WF_vars(PaginateStep)

(***************************************************************************)
(* Properties.                                                              *)
(***************************************************************************)
Last(q) == q[Len(q)]
IsHeader(b) == b.type \in {"h2", "h3"}
HeightSum(bs) == Sum([i \in 1..Len(bs) |-> bs[i].height])
Budget == MAX_HEIGHT * Scale

\* the concatenation of a sequence of sequences
RECURSIVE Flatten(_)
Flatten(qs) == IF qs = << >> THEN << >> ELSE Head(qs) \o Flatten(Tail(qs))

\* the markup fragments of a sequence of blocks
Markup(bs) == [k \in 1..Len(bs) |-> bs[k].html]

\* C1. Budget invariant: the content of every slide of the output is the
\* markup of the blocks laid on it, and every slide that holds more than one
\* block has a sum of its blocks' heights of at most MAX_HEIGHT (so only a
\* slide of exactly one block may exceed it).
C1_BudgetInvariant ==
    /\ Len(slide_blocks) = Len(slides)
    /\ \A i \in 1..Len(slides) :
        /\ ~slides[i].is_cover => slides[i].content = Markup(slide_blocks[i])
        /\ Len(slide_blocks[i]) > 1 => HeightSum(slide_blocks[i]) <= Budget

\* C1's case: an output with a slide of several blocks that fills the budget
\* exactly, and a slide of one block above the budget
C1_Witness ==
    /\ pc = "done"
    /\ \E i \in 1..Len(slide_blocks) :
        Len(slide_blocks[i]) > 1 /\ HeightSum(slide_blocks[i]) = Budget
    /\ \E j \in 1..Len(slide_blocks) :
        Len(slide_blocks[j]) = 1 /\ HeightSum(slide_blocks[j]) > Budget

\* C2 as claimed. Orphan-free headers: in the output of _paginate no slide but
\* the last ends with a Heading2 or Heading3 block (blocks remained to be
\* laid out when any slide but the last was closed).
C2_OrphanFreeAsClaimed ==
    pc = "done" =>
        \A i \in 1..(Len(slide_blocks) - 1) :
            slide_blocks[i] # << >> => ~IsHeader(Last(slide_blocks[i]))

\* C2 as amended: a slide other than the last ends with a Heading2 or
\* Heading3 block H only if the block laid out next is a heading too, or H is
\* the only block of its slide and its height plus the next block's height
\* exceeds MAX_HEIGHT.
C2_OrphanFreeAmended ==
    pc = "done" =>
        \A i \in 1..(Len(slide_blocks) - 1) :
            (slide_blocks[i] # << >> /\ IsHeader(Last(slide_blocks[i]))) =>
                /\ slide_blocks[i + 1] # << >>
                /\ \/ IsHeader(slide_blocks[i + 1][1])
                   \/ /\ Len(slide_blocks[i]) = 1
                      /\ slide_blocks[i][1].height + slide_blocks[i + 1][1].height > Budget

\* C2's case: a slide that is not the last holds a heading alone, and the
\* block after it is no heading
C2_Witness ==
    /\ pc = "done"
    /\ \E i \in 1..(Len(slide_blocks) - 1) :
        /\ Len(slide_blocks[i]) = 1
        /\ IsHeader(slide_blocks[i][1])
        /\ ~IsHeader(slide_blocks[i + 1][1])

\* the value of a string of decimal digits
RECURSIVE int(_)
int(ds) ==
    IF ds = << >> THEN 0
    ELSE 10 * int(SubSeq(ds, 1, Len(ds) - 1))
         + (CHOOSE d \in 0..9 : DigitChars[d + 1] = ds[Len(ds)])

\* C4. Footer invariant: when _paginate has returned N slides, the i-th
\* slide's footer_right reads SLIDE, the position i in at least two digits, a
\* slash, and the total N in at least two digits, with N the length of the
\* sequence; no slide keeps the footer without a total it was closed with.
C4_FooterInvariant ==
    pc = "done" =>
        \A i \in 1..Len(slides) :
            LET f == slides[i].footer_right
                slash == find(f, "/", 1)
                position == SubSeq(f, Len(SLIDE) + 1, slash - 1)
                total == From(f, slash + 1)
            IN  /\ startswith(f, SLIDE)
                /\ slash # 0
                /\ Len(position) >= 2 /\ \A k \in 1..Len(position) : position[k] \in Digits
                /\ Len(total) >= 2 /\ \A k \in 1..Len(total) : total[k] \in Digits
                /\ int(position) = i
                /\ int(total) = Len(slides)

\* C4's case: a returned sequence of a cover slide and two or more content slides
C4_Witness ==
    /\ pc = "done"
    /\ Len(slides) >= 3
    /\ slides[1].is_cover
    /\ ~slides[3].is_cover

\* Scenario C at the last two iterations of the sweep: the sweep reached a
\* Heading2 with a paragraph next in the queue while the slide held content
\* and currentHeight + heading.height + paragraph.height > MAX_HEIGHT, and
\* the iteration after it has just processed the paragraph.
ScenarioC ==
    /\ pc = "sweep"
    /\ Len(sweep_log) >= 2
    /\ LET h == sweep_log[Len(sweep_log) - 1]
           p == sweep_log[Len(sweep_log)]
       IN  /\ h.block.type = "h2"
           /\ p.block.type = "p"
           /\ h.had_content
           /\ h.height_before + h.block.height + p.block.height > Budget

\* C5 as claimed. Scenario C: the heading is the first block of a new slide
\* and the paragraph is on that same slide.
C5_ScenarioCAsClaimed ==
    ScenarioC =>
        current_blocks = << sweep_log[Len(sweep_log) - 1].block, sweep_log[Len(sweep_log)].block >>

\* C5 as amended. Scenario C: the slide is closed and the heading is the
\* first block of a new slide; the paragraph is laid on that slide when
\* heading.height + paragraph.height <= MAX_HEIGHT, and otherwise the
\* heading's slide is closed with the heading alone and the paragraph starts
\* the slide after it.
C5_ScenarioCAmended ==
    ScenarioC =>
        LET h == sweep_log[Len(sweep_log) - 1]
            p == sweep_log[Len(sweep_log)]
        IN  /\ h.closed # "none"
            /\ IF h.block.height + p.block.height <= Budget
               THEN current_blocks = << h.block, p.block >>
               ELSE /\ current_blocks = << p.block >>
                    /\ Last(slide_blocks) = << h.block >>

\* C5's case: Scenario C with the paragraph laid beside the heading
C5_Witness ==
    /\ ScenarioC
    /\ current_blocks = << sweep_log[Len(sweep_log) - 1].block, sweep_log[Len(sweep_log)].block >>

\* C6. Accepted lone overflow: the slides of the output hold the blocks of
\* the flow, each once and in order (none dropped or split), a block higher
\* than MAX_HEIGHT is the only block of its slide, and a flow of one List
\* block higher than MAX_HEIGHT gives one content slide of that list alone.
C6_LoneOverflow ==
    pc = "done" =>
        /\ Flatten(slide_blocks) = blocks
        /\ \A i \in 1..Len(slide_blocks) :
            \A k \in 1..Len(slide_blocks[i]) :
                slide_blocks[i][k].height > Budget =>
                    /\ Len(slide_blocks[i]) = 1
                    /\ slides[i].content = << slide_blocks[i][k].html >>
        /\ (Len(blocks) = 1 /\ blocks[1].type = "list" /\ blocks[1].height > Budget
                /\ cover_block = None) =>
            /\ Len(slides) = 1
            /\ slides[1].content = << blocks[1].html >>

\* C6's case: the input was one List block higher than MAX_HEIGHT
C6_Witness ==
    /\ pc = "done"
    /\ cover_block = None
    /\ Len(blocks) = 1 /\ blocks[1].type = "list" /\ blocks[1].height > Budget
    /\ Len(slides) = 1

\* a line that opens or closes a code fence
IsFenceLine(l) == startswith(strip(l), Fence)

\* the index of the line that opened the fence open after lines 1..n of ls,
\* or 0 when no fence is open there
RECURSIVE FenceOpen(_, _)
FenceOpen(ls, n) ==
    IF n = 0 THEN 0
    ELSE IF IsFenceLine(ls[n]) THEN (IF FenceOpen(ls, n - 1) = 0 THEN n ELSE 0)
    ELSE FenceOpen(ls, n - 1)

\* a top-level heading with a title: one number sign, then text
IsTopHeading(l) ==
    /\ startswith(l, << "#" >>)
    /\ LeadingRun(l, {"#"}) = 1
    /\ strip(From(l, 2)) # << >>

\* the document holds a top-level heading outside its code fences
HasTopHeading ==
    LET ls == split(strip(text), "\n") IN
    \E i \in 1..Len(ls) :
        FenceOpen(ls, i - 1) = 0 /\ ~IsFenceLine(ls[i]) /\ IsTopHeading(ls[i])

Covers == {i \in 1..Len(slides) : slides[i].is_cover}

\* C3 as claimed. Cover invariant: when the document holds a top-level
\* heading, the slides parse returns start with a cover slide and hold
\* exactly one cover slide; when it holds none, no slide is a cover slide.
C3_CoverInvariantAsClaimed ==
    (pc = "done" /\ entry = "parse") =>
        IF HasTopHeading
        THEN slides # << >> /\ slides[1].is_cover /\ Cardinality(Covers) = 1
        ELSE Covers = {}

\* the heights of the Image blocks of a block sequence, in order
ImageHeights(bs) ==
    LET imgs == SelectSeq(bs, LAMBDA b : b.type = "image") IN
    [k \in 1..Len(imgs) |-> imgs[k].height]

\* C7. Image resolution failure is non-fatal: no exception leaves
\* _get_image_height; a lookup that failed (download error, malformed URL,
\* decode error, zero pixel height or width) returned 300 and one that
\* succeeded a height of at most 520; the Image blocks have the heights the
\* lookups returned; and parse goes on: the slides it returns hold every
\* block, the Image blocks with them.
C7_ImageFailureNonFatal ==
    /\ pc # "raised"
    /\ \A k \in 1..Len(lookups) :
        /\ lookups[k].exc # "" => lookups[k].height = FALLBACK_HEIGHT * Scale
        /\ lookups[k].exc = "" =>
            lookups[k].height > 0 /\ lookups[k].height <= IMAGE_MAX_HEIGHT * Scale
    /\ entry = "parse" =>
        /\ ImageHeights(blocks) = [k \in 1..Len(lookups) |-> lookups[k].height]
        /\ pc = "done" =>
            /\ Flatten(slide_blocks) = blocks
            /\ blocks # << >> => slides # << >>

\* C7's case: parse has returned slides for a document with an image whose
\* URL is malformed and an image whose file has a pixel height of zero
C7_Witness ==
    /\ pc = "done"
    /\ slides # << >>
    /\ \E k \in 1..Len(lookups) : lookups[k].exc = "MissingSchema"
    /\ \E k \in 1..Len(lookups) : lookups[k].exc = "ZeroDivisionError"

NoSplit == << None, None >>

\* C8. List Splitter head fits: when _try_split_list returns two blocks, the
\* head's estimated height, the base padding 10 plus the heights of its
\* items, is at most available_height; the head's items are the first items
\* of the list, and the tail holds the items after them, one line each.
C8_HeadFits ==
    (pc = "returned" /\ split_result # NoSplit) =>
        LET items == split(split_block.content, "\n")
            head == split(split_result[1].content, "\n")
            tail == split(split_result[2].content, "\n")
        IN  /\ split_result[1].type = "list" /\ split_result[2].type = "list"
            /\ split_result[1].height
                 = base_padding * Scale + Sum([k \in 1..Len(head) |-> item_height(head[k])])
            /\ split_result[1].height <= available_height
            /\ Len(head) + Len(tail) = Len(items)
            /\ head = SubSeq(items, 1, Len(head))
            /\ \A k \in 1..Len(tail) : clean_text(tail[k]) = clean_text(items[Len(head) + k])

\* C8's case: a split whose head fills available_height exactly
C8_Witness ==
    /\ pc = "returned"
    /\ split_result # NoSplit
    /\ split_result[1].height = available_height

\* C9 as claimed. No-split signal: _try_split_list returns (None, None) when
\* the first item does not fit with the base padding, and when all items fit
\* (the tail would be empty); a pair it returns otherwise has two blocks,
\* neither None nor empty.
C9_NoSplitSignalAsClaimed ==
    pc = "returned" =>
        LET items == split(split_block.content, "\n")
            first_fits == base_padding * Scale + item_height(items[1]) <= available_height
            all_fit == split_block.height <= available_height
        IN  /\ ~first_fits => split_result = NoSplit
            /\ all_fit => split_result = NoSplit
            /\ split_result # NoSplit =>
                /\ split_result[1] # None /\ split_result[2] # None
                /\ split_result[1].content # << >> /\ split_result[2].content # << >>

\* the lines lo..hi as the Tokenizer accumulates them
Captured(lo, hi) == [k \in 1..(hi - lo + 1) |-> rstrip(lines[lo + k - 1])]

\* blks is old with one Code block of the lines lo..hi after it
OneCodeBlockMore(blks, old, lo, hi) ==
    /\ Len(blks) = Len(old) + 1
    /\ SubSeq(blks, 1, Len(old)) = old
    /\ Last(blks).type = "code"
    /\ Last(blks).content = strip(join(Captured(lo, hi), "\n"))

\* C10. Fence capture: a fence line met outside a fence opens a Code
\* accumulation with that line; while a fence is open, every line that is no
\* fence line is appended to that accumulation and adds no block, whatever it
\* looks like; the closing fence line is appended too, the accumulation is
\* flushed as one Code block and the state is Paragraph again; at the end of
\* the input an open fence is flushed as one Code block.
C10_FenceCapture ==
    [][pc = "tokenize" =>
        LET o == FenceOpen(lines, pos - 1) IN
        IF pos > Len(lines)
        THEN o # 0 => OneCodeBlockMore(blocks', blocks, o, Len(lines))
        ELSE IF o = 0
        THEN IsFenceLine(lines[pos]) =>
                current_type' = "code" /\ current_block' = Captured(pos, pos)
        ELSE IF IsFenceLine(lines[pos])
        THEN /\ OneCodeBlockMore(blocks', blocks, o, pos)
             /\ current_type' = "p"
             /\ current_block' = << >>
        ELSE /\ blocks' = blocks
             /\ current_type' = "code"
             /\ current_block' = Captured(o, pos)]_vars

\* C10's case: the Tokenizer has returned one Code block that holds a line
\* looking like a heading, and no heading block
C10_Witness ==
    /\ pc = "paginate"
    /\ entry = "parse"
    /\ Len(blocks) = 1
    /\ blocks[1].type = "code"
    /\ \E l \in {split(blocks[1].content, "\n")[k] : k \in 1..Len(split(blocks[1].content, "\n"))} :
        startswith(l, << "#" >>)

\* the heading kind the run length of the leading number signs gives
KindOfRun(line) ==
    LET run == LeadingRun(line, {"#"}) IN
    IF run = 1 THEN "h1" ELSE IF run = 2 THEN "h2" ELSE "h3"

\* the tokenizer is about to read a line outside every fence
OutsideFence ==
    /\ pc = "tokenize"
    /\ pos <= Len(lines)
    /\ FenceOpen(lines, pos - 1) = 0
    /\ ~IsFenceLine(lines[pos])

\* blks is old with one block of the given type and content after it
OneBlockMore(blks, old, type, content) ==
    /\ Len(blks) = Len(old) + 1
    /\ SubSeq(blks, 1, Len(old)) = old
    /\ Last(blks).type = type
    /\ Last(blks).content = content

\* C11 as claimed. Heading classification: on a line outside a fence that
\* begins with a number sign and has text after the markers (a line with no
\* text emits no block), the tokenizer flushes the pending block, emits
\* one heading block whose kind the run length of the leading number signs
\* gives (1: h1, 2: h2, 3 or more: h3) and whose content is the line without
\* the markers, and is in the Paragraph state afterwards, whether or not a
\* space follows the run.
C11_HeadingClassificationAsClaimed ==
    [][(OutsideFence /\ startswith(rstrip(lines[pos]), << "#" >>)) =>
        LET line == rstrip(lines[pos])
            title == strip(From(line, LeadingRun(line, {"#"}) + 1))
        IN  title # << >> =>
            /\ OneBlockMore(blocks', flush_block(blocks, current_block, current_type, 0),
                            KindOfRun(line), title)
            /\ current_type' = "p"
            /\ current_block' = << >>]_vars

\* the lines of a block's raw content
LinesOf(content) == split(content, "\n")

\* every line of the sequence is a list-marker line
OnlyListLines(ls) == \A k \in 1..Len(ls) : is_list_item(strip(ls[k]))

\* C12 as claimed. List accumulation boundary: the first line that is not a
\* list-marker line ends the List block being accumulated, so neither a List
\* accumulation nor the raw content of a List block the tokenizer emits ever
\* holds a line that is not a list-marker line.
C12_ListAccumulationAsClaimed ==
    /\ current_type = "list" => OnlyListLines(current_block)
    /\ \A k \in 1..Len(blocks) :
        blocks[k].type = "list" => OnlyListLines(LinesOf(blocks[k].content))

\* C13. Standalone images: on a line outside a fence that matches the image
\* pattern (at the start of the trimmed line, as re.match does), the
\* tokenizer flushes the pending block, emits one Image block whose content
\* is that line alone, and is in the Paragraph state with nothing accumulated
\* afterwards; so an Image block holds one line, and no Paragraph or List
\* block holds a line that matches the pattern.
C13_StandaloneImages ==
    /\ [][(OutsideFence /\ is_image(strip(lines[pos]))) =>
            /\ OneBlockMore(blocks', flush_block(blocks, current_block, current_type, 0),
                            "image", strip(lines[pos]))
            /\ current_type' = "p"
            /\ current_block' = << >>]_vars
    /\ [](\A k \in 1..Len(blocks) :
            LET ls == LinesOf(blocks[k].content) IN
            IF blocks[k].type = "image" THEN Len(ls) = 1 /\ is_image(ls[1])
            ELSE blocks[k].type \in {"p", "list"} =>
                    \A j \in 1..Len(ls) : ~is_image(strip(ls[j])))

\* C13's case: the tokenizer has returned an Image block between a List
\* block or a Paragraph block and a Paragraph block
C13_Witness ==
    /\ pc = "paginate"
    /\ entry = "parse"
    /\ Len(blocks) = 3
    /\ blocks[1].type \in {"p", "list"}
    /\ blocks[2].type = "image"
    /\ blocks[3].type = "p"

\* C14. No empty blocks: every block the tokenizer holds or returns, and so
\* every block laid on a slide, has raw content that is not empty and not
\* only whitespace; a blank line met with nothing accumulated emits no
\* block, a heading line with no text after the markers emits no heading
\* block, and the accumulator is empty after either.
C14_NoEmptyBlocks ==
    /\ [](/\ \A k \in 1..Len(blocks) : strip(blocks[k].content) # << >>
          /\ \A i \in 1..Len(slide_blocks) : \A k \in 1..Len(slide_blocks[i]) :
                strip(slide_blocks[i][k].content) # << >>)
    /\ [][OutsideFence =>
            LET line == rstrip(lines[pos]) IN
            /\ (strip(line) = << >> /\ current_block = << >>) =>
                    blocks' = blocks /\ current_block' = << >>
            /\ (startswith(line, << "#" >>) /\ strip(From(line, LeadingRun(line, {"#"}) + 1)) = << >>) =>
                    /\ blocks' = flush_block(blocks, current_block, current_type, 0)
                    /\ Len(blocks') <= Len(blocks) + 1
                    /\ \A k \in 1..Len(blocks') : blocks'[k].type \notin {"h1", "h2", "h3"}
                                                   \/ k <= Len(blocks)
                    /\ current_block' = << >>]_vars

\* C14's case: a document of a heading marker with no text, a blank line and
\* a line of text has been tokenized into one block
C14_Witness ==
    /\ pc = "paginate"
    /\ entry = "parse"
    /\ Len(lines) = 3
    /\ lines[1] = << "#" >>
    /\ lines[2] = << >>
    /\ Len(blocks) = 1

\* the Heading1 blocks of a block sequence, in order
Heading1s(bs) == SelectSeq(bs, LAMBDA b : b.type = "h1")

\* C15. Cover extraction with several Heading1 blocks: when the blocks
\* _paginate is given hold Heading1 blocks, the first of them in order gives
\* the cover slide, which is the first slide and the only cover slide, with
\* its content as cover_title; the flow is the given blocks without any
\* Heading1 block, and no Heading1 block is in the queue, on the open slide
\* or on a content slide, whose content is the markup of the blocks laid on it.
C15_CoverExtraction ==
    pc \in {"sweep", "renumber", "done"} =>
        /\ Heading1s(given_blocks) # << >> =>
            /\ slides # << >>
            /\ slides[1].is_cover
            /\ slides[1].cover_title = Heading1s(given_blocks)[1].content
            /\ Covers = {1}
        /\ blocks = SelectSeq(given_blocks, LAMBDA b : b.type # "h1")
        /\ Heading1s(block_queue) = << >>
        /\ Heading1s(current_blocks) = << >>
        /\ Len(slide_blocks) = Len(slides)
        /\ \A i \in 1..Len(slides) :
            /\ Heading1s(slide_blocks[i]) = << >>
            /\ ~slides[i].is_cover => slides[i].content = Markup(slide_blocks[i])

\* C15's case: _paginate has returned for blocks with two different Heading1
\* blocks, the second of them the one titled T
C15_Witness ==
    /\ pc = "done"
    /\ Len(Heading1s(given_blocks)) = 2
    /\ Heading1s(given_blocks)[1].content = << "U" >>
    /\ Heading1s(given_blocks)[2].content = << "T" >>
    /\ Len(slides) = 2

\* C16 as claimed. Single Heading1 from the tokenizer: the blocks _tokenize
\* builds and returns hold at most one Heading1 block.
C16_SingleHeading1AsClaimed ==
    entry = "parse" => Len(Heading1s(blocks)) <= 1

\* the index of the top-level item that opens the group item k belongs to:
\* the last item up to k with no indentation (1 when there is none)
GroupStart(items, k) ==
    LET tops == {j \in 1..k : indent_of(items[j]) = 0} IN
    IF tops = {} THEN 1 ELSE CHOOSE j \in tops : \A i \in tops : i <= j

\* C17 as claimed. Sticky-parent outcome: in every split _try_split_list
\* returns, the tail does not open with an indented item, which would be a
\* child whose parent ends the head or an item of a sub-list the head ends
\* inside, except when the parent of that group is the first item of the
\* list, so that moving it to the tail would leave the head empty.
C17_StickyParentAsClaimed ==
    (pc = "returned" /\ split_result # NoSplit) =>
        LET items == LinesOf(split_block.content)
            n == Len(LinesOf(split_result[1].content))
        IN  indent_of(items[n + 1]) > 0 => GroupStart(items, n + 1) = 1

\* the lookups of a URL at which the network was asked
Fetches(url) == {k \in 1..Len(lookups) : lookups[k].url = url /\ lookups[k].fetched}

\* C18 as claimed. At-most-once fetch: over the calls of _get_image_height
\* the network is asked at most once for a URL, a first fetch that failed
\* included; every later lookup of the URL is served from the cache directory.
C18_AtMostOnceFetchAsClaimed ==
    \A k \in 1..Len(lookups) : Cardinality(Fetches(lookups[k].url)) <= 1

\* C19. List splitting is never applied by the sweep: every iteration takes
\* one block off the front of the queue and puts nothing in; the blocks on
\* the closed slides, on the open slide and in the queue are at every moment
\* the blocks of the flow, whole and in order; and a block that would
\* overflow a slide that holds content, a List block like any other, is laid
\* whole as the first block of a new slide.
C19_NoSplitInSweep ==
    /\ [](/\ pc = "sweep" => Flatten(slide_blocks) \o current_blocks \o block_queue = blocks
          /\ pc \in {"renumber", "done"} => Flatten(slide_blocks) = blocks)
    /\ [][(pc = "sweep" /\ block_queue # << >>) =>
            /\ block_queue' = Tail(block_queue)
            /\ (current_slide_content # << >>
                    /\ current_height + Head(block_queue).height > Budget) =>
                /\ Len(slides') = Len(slides) + 1
                /\ slide_blocks' = Append(slide_blocks, current_blocks)
                /\ current_blocks' = << Head(block_queue) >>
                /\ current_slide_content' = << Head(block_queue).html >>]_vars

\* C19's case: a List block did not fit on the open slide, of which
\* _try_split_list would have returned a head for the room left, and was
\* laid whole on a new slide
C19_Witness ==
    /\ pc = "sweep"
    /\ sweep_log # << >>
    /\ Last(sweep_log).block.type = "list"
    /\ Last(sweep_log).closed = "overflow"
    /\ try_split_list(Last(sweep_log).block, Budget - Last(sweep_log).height_before) # NoSplit
    /\ current_blocks = << Last(sweep_log).block >>

\* slide new is slide old in every field but footer_right
SameButFooter(old, new) == [new EXCEPT !.footer_right = old.footer_right] = old

\* C20. Closed slides are frozen: a step of _paginate keeps every slide of
\* the output at its position and changes none of its fields other than
\* footer_right; footer_right changes only in the renumbering pass, which
\* runs after the sweep has emptied the queue and returns.
C20_ClosedSlidesFrozen ==
    [][/\ Len(slides') >= Len(slides)
       /\ \A i \in 1..Len(slides) :
            /\ SameButFooter(slides[i], slides'[i])
            /\ slides'[i].footer_right # slides[i].footer_right =>
                    pc = "renumber" /\ block_queue = << >> /\ pc' = "done"]_vars

\* C20's case: _paginate has returned a cover slide and two content slides,
\* the first of them renumbered after it was closed during the sweep
C20_Witness ==
    /\ pc = "done"
    /\ Len(slides) = 3
    /\ slides[1].is_cover
    /\ slides[2].content = Markup(slide_blocks[2])
    /\ slides[2].footer_right = final_footer(2, 3)
    /\ slides[2].footer_right # provisional_footer(2)

\* the markup fragments on the slides from slide i on, cover slides skipped
RECURSIVE ContentFrom(_)
ContentFrom(i) ==
    IF i > Len(slides) THEN << >>
    ELSE (IF slides[i].is_cover THEN << >> ELSE slides[i].content) \o ContentFrom(i + 1)

\* C21. Partition in document order: the contents of the content slides
\* _paginate returns, one after the other, are the markup of the blocks it
\* was given that are no Heading1 blocks, each once and in the order given,
\* and no content slide is empty.
C21_Partition ==
    pc = "done" =>
        /\ ContentFrom(1) = Markup(SelectSeq(given_blocks, LAMBDA b : b.type # "h1"))
        /\ \A i \in 1..Len(slides) : ~slides[i].is_cover => slides[i].content # << >>

\* C21's case: _paginate has returned two content slides for three blocks,
\* the first slide holding two different blocks
C21_Witness ==
    /\ pc = "done"
    /\ Len(given_blocks) = 3
    /\ Len(slides) = 2
    /\ ~slides[1].is_cover
    /\ Len(slides[1].content) = 2
    /\ slides[1].content[1] # slides[1].content[2]

\* the number of blocks on the slides before slide i
BlocksBefore(i) == Len(Flatten(SubSeq(slide_blocks, 1, i - 1)))

\* C22. No premature page break: in the slides _paginate returns, for a
\* content slide S followed by a content slide T whose first block is b,
\* either the height of S plus the height of b exceeds MAX_HEIGHT, or b is a
\* Heading2 or Heading3 with a block n after it in the flow and the height of
\* S plus the heights of b and n exceeds MAX_HEIGHT; and a step of the sweep
\* closes at most one slide, and closes one only when the open slide holds
\* content and one of these two conditions holds for the block it processes.
C22_NoPrematureBreak ==
    /\ [](pc = "done" =>
            \A i \in 1..(Len(slides) - 1) :
                ~slides[i].is_cover =>
                    LET S == HeightSum(slide_blocks[i])
                        b == slide_blocks[i + 1][1]
                        at == BlocksBefore(i + 1) + 1
                    IN  \/ S + b.height > Budget
                        \/ /\ IsHeader(b)
                           /\ at < Len(blocks)
                           /\ S + b.height + blocks[at + 1].height > Budget)
    /\ [][(pc = "sweep" /\ block_queue # << >> /\ slides' # slides) =>
            LET b == Head(block_queue) IN
            /\ Len(slides') = Len(slides) + 1
            /\ current_slide_content # << >>
            /\ \/ current_height + b.height > Budget
               \/ /\ IsHeader(b)
                  /\ Len(block_queue) > 1
                  /\ current_height + b.height + block_queue[2].height > Budget]_vars

\* C22's case: a slide was closed before a heading that would have fitted on
\* it, because the heading and the block after it together did not
C22_Witness ==
    /\ pc = "done"
    /\ Len(slides) = 2
    /\ ~slides[1].is_cover
    /\ IsHeader(slide_blocks[2][1])
    /\ Len(slide_blocks[2]) = 2
    /\ HeightSum(slide_blocks[1]) + slide_blocks[2][1].height <= Budget

\* C23. Sweep termination: a call of _paginate returns; every iteration of
\* the loop takes exactly one block off the queue and adds none, so that the
\* iterations done and the blocks queued always add up to the blocks of the
\* flow and the loop has run once for each of them when it ends; the step
\* after the loop closes the accumulator as the last slide exactly when it
\* holds content, and the footer pass follows it.
C23_SweepTermination ==
    /\ (pc = "paginate") ~> (pc = "done")
    /\ [](/\ pc = "sweep" => Len(sweep_log) + Len(block_queue) = Len(blocks)
          /\ pc \in {"renumber", "done"} => Len(sweep_log) = Len(blocks) /\ block_queue = << >>)
    /\ [][pc = "sweep" =>
            IF block_queue # << >>
            THEN /\ block_queue' = Tail(block_queue)
                 /\ Len(sweep_log') = Len(sweep_log) + 1
                 /\ pc' = "sweep"
            ELSE /\ slides' = IF current_slide_content # << >>
                              THEN Append(slides, finalize_slide(current_slide_content, slide_index))
                              ELSE slides
                 /\ pc' = "renumber"]_vars
    /\ [][pc = "renumber" =>
            /\ pc' = "done"
            /\ Len(slides') = Len(slides)
            /\ \A i \in 1..Len(slides) : slides'[i].footer_right = final_footer(i, Len(slides))]_vars

\* C23's case: _paginate has returned after a sweep of three iterations that
\* left content in the accumulator, closed as the second content slide
C23_Witness ==
    /\ pc = "done"
    /\ Len(sweep_log) = 3
    /\ Len(slides) = 2
    /\ ~slides[1].is_cover
    /\ slides[2].content = current_slide_content
    /\ current_slide_content # << >>

\* C24. Split conservation: in every split _try_split_list returns, the
\* head's lines are the first lines of the list, unchanged, and the tail has
\* one line for each line after them, in order: that line without a margin
\* of leading whitespace which is the same for all of them and is all the
\* leading whitespace they have in common.
C24_SplitConservation ==
    (pc = "returned" /\ split_result # NoSplit) =>
        LET items == LinesOf(split_block.content)
            head == LinesOf(split_result[1].content)
            tail == LinesOf(split_result[2].content)
            rest == SubSeq(items, Len(head) + 1, Len(items))
        IN  /\ Len(head) < Len(items)
            /\ head = SubSeq(items, 1, Len(head))
            /\ Len(tail) = Len(rest)
            /\ \E m \in 0..Len(rest[1]) :
                /\ \A j \in 1..m : rest[1][j] \in Whitespace
                /\ \A k \in 1..Len(rest) :
                    /\ Len(rest[k]) >= m
                    /\ SubSeq(rest[k], 1, m) = SubSeq(rest[1], 1, m)
                    /\ tail[k] = From(rest[k], m + 1)
            /\ \E k \in 1..Len(tail) :
                tail[k] = << >> \/ tail[k][1] \notin Whitespace \/ tail[k][1] # tail[1][1]

\* C24's case: a split with a head of two items whose tail lost leading
\* whitespace
C24_Witness ==
    /\ pc = "returned"
    /\ split_result # NoSplit
    /\ Len(LinesOf(split_result[1].content)) = 2
    /\ LinesOf(split_result[2].content)[1]
         # LinesOf(split_block.content)[3]

====
